---- MODULE Spec2Model ----
(***************************************************************************)
(* Model of the per-tenant rate limiter of xero-rs-async                   *)
(* (src/src/rate_limiter.rs): RateLimiter::new, RateLimiter::acquire_permit *)
(* and RateLimiter::save_state, run by concurrent tasks on a tokio runtime. *)
(*                                                                         *)
(* Time is the value of chrono::Utc::now().timestamp(): whole seconds.     *)
(* A VecDeque<i64> of timestamps is kept as a sequence of runs             *)
(* [t |-> timestamp, n |-> number of consecutive equal entries]; no two    *)
(* neighbouring runs carry the same timestamp, so a run sequence stands    *)
(* for exactly one VecDeque.                                               *)
(***************************************************************************)
EXTENDS Integers, Sequences, FiniteSets, TLC

----------------------------------------------------------------------------
(* Program constants *)

CONCURRENT_LIMIT == 5

MINUTE_LIMIT == 60

DAILY_LIMIT == 5000

RATE_LIMIT_BUFFER == 2

\* `now - t < 86400` in the retain of acquire_permit
DAY_SECONDS == 86400

\* `minute_ago = now - 60`
MINUTE_SECONDS == 60

\* `oldest_in_minute + 61 - now`
WAIT_MARGIN == 61

----------------------------------------------------------------------------
(* Bounds of the model *)

\* clock value when the limiter is constructed
T0 == 86400

\* the clock ticks second by second up to T0 + MaxTick; later times are
\* reached when a sleeping task's timer fires
MaxTick == 1

\* calls made in the general scenario, over all tasks
MaxCalls == 2

\* worker threads of the runtime in the runtime scenario: 1..MaxWorkers
MaxWorkers == 2

\* calls of the burst scenario
MaxBurst == 117

\* calls of the reload scenario
MaxReload == 3

\* half seconds that may pass before the first call of the phase scenario
MaxPhase == 1

Callers == 1..(CONCURRENT_LIMIT + 1)

Tenants == 1..(CONCURRENT_LIMIT + 1)

NoCaller == 0

\* tasks and tenants of the general scenario
MainCallers == {1, 2}

MainTenants == {1, 2}

----------------------------------------------------------------------------
(* VecDeque<i64> as a sequence of runs *)

RECURSIVE SumN(_)
SumN(q) == IF q = <<>> THEN 0 ELSE Head(q).n + SumN(Tail(q))

\* VecDeque::len
len(q) == SumN(q)

\* variant: VecDeque::push_front
push_front(q, t) ==
    IF q # <<>> /\ q[1].t = t
    THEN [q EXCEPT ![1].n = @ + 1]
    ELSE <<[t |-> t, n |-> 1]>> \o q

\* VecDeque::push_back
push_back(q, t) ==
    IF q # <<>> /\ q[Len(q)].t = t
    THEN [q EXCEPT ![Len(q)].n = @ + 1]
    ELSE Append(q, [t |-> t, n |-> 1])

RECURSIVE Glue(_)
\* joins neighbouring runs of one timestamp after entries were removed
Glue(q) ==
    IF Len(q) < 2 THEN q
    ELSE IF q[1].t = q[2].t
         THEN Glue(<<[t |-> q[1].t, n |-> q[1].n + q[2].n]>> \o SubSeq(q, 3, Len(q)))
         ELSE <<q[1]>> \o Glue(Tail(q))

\* variant: the pruning empties the sequence
retain_clearing(q, now) == <<>>

\* state.requests.retain(|&t| now - t < 86400)
retain(q, now) == Glue(SelectSeq(q, LAMBDA r : now - r.t < DAY_SECONDS))

\* state.requests.iter().filter(|&&t| t > minute_ago).count()
requests_in_last_minute(q, now) ==
    SumN(SelectSeq(q, LAMBDA r : r.t > now - MINUTE_SECONDS))

\* state.requests.len()
requests_in_last_day(q) == len(q)

\* variant: the newest timestamp of the window instead of the oldest
newest_in_minute(q, now) ==
    LET hits == SelectSeq(q, LAMBDA r : r.t > now - MINUTE_SECONDS)
    IN  IF hits = <<>> THEN {} ELSE {hits[Len(hits)].t}

\* state.requests.iter().find(|&&t| t > minute_ago): a set with the first
\* such entry in deque order, empty for None
oldest_in_minute(q, now) ==
    LET hits == SelectSeq(q, LAMBDA r : r.t > now - MINUTE_SECONDS)
    IN  IF hits = <<>> THEN {} ELSE {hits[1].t}

Max(a, b) == IF a >= b THEN a ELSE b

\* variant: a wait that ends 60 s after the oldest timestamp, one second early
wait_seconds_short(oldest, now) == Max(oldest + MINUTE_SECONDS - now, 1)

\* (oldest_in_minute + 61 - now).max(1)
wait_seconds(oldest, now) == Max(oldest + WAIT_MARGIN - now, 1)

Run(t, n) == [t |-> t, n |-> n]

----------------------------------------------------------------------------
VARIABLES
    clock,            \* chrono::Utc::now().timestamp()
    phase,            \* the half of that second the wall clock is in: 0 or 1
    workers,          \* worker threads of the tokio runtime
    limiter,          \* what the latest RateLimiter::new returned
    available,        \* free permits of concurrent_semaphore
    sem_waiters,      \* tasks queued on concurrent_semaphore, oldest first
    tenant_states,    \* DashMap: present tenant -> requests
    lockOwner,        \* per tenant Mutex: the task holding it, or NoCaller
    file_write_lock,  \* the task holding file_write_lock, or NoCaller
    cache_file,       \* the file at cache_path
    pc,               \* where each task stands
    tenant,           \* tenant_id of the task's call
    now0,             \* `now` of line 78, read when the tenant lock is taken
    wakeAt,           \* clock value at which the task's sleep ends
    saved,            \* serializable_map of the task's save_state
    saveCur,          \* tenant of the DashMap item the save_state loop holds
    calls,            \* calls of acquire_permit made so far
    result,           \* how the task's last call ended
    slept,            \* minute-window sleeps of the task's current call
    appended,         \* whether the current call has pushed its timestamp
    granted           \* per tenant: instants at which admissions were recorded

vars == <<clock, phase, workers, limiter, available, sem_waiters, tenant_states, lockOwner, file_write_lock,
          cache_file, pc, tenant, now0, wakeAt, saved, saveCur, calls, result,
          slept, appended, granted>>

NoMap == [t \in {} |-> <<>>]

\* the wall clock in half seconds; timestamp() cuts it down to whole seconds
Instant == 2 * clock + phase

----------------------------------------------------------------------------
(* The cache file and RateLimiter::new *)

\* serde_json's text of an i64 (the timestamps are positive): its decimal
\* digits, most significant first
RECURSIVE itoa(_)
itoa(n) == IF n < 10 THEN <<n>> ELSE Append(itoa(n \div 10), n % 10)

\* serde_json's reading of a number
RECURSIVE atoi(_)
atoi(ds) ==
    IF Len(ds) = 1 THEN ds[1]
    ELSE 10 * atoi(SubSeq(ds, 1, Len(ds) - 1)) + ds[Len(ds)]

\* the JSON array of one tenant's requests, equal numbers in a row kept as
\* one run
Array(q) == [i \in 1..Len(q) |-> [t |-> itoa(q[i].t), n |-> q[i].n]]

\* variant: an array read back to front
Requests_reversed(a) ==
    [i \in 1..Len(a) |-> [t |-> atoi(a[Len(a) + 1 - i].t), n |-> a[Len(a) + 1 - i].n]]

\* the VecDeque<i64> read from a JSON array
Requests(a) == [i \in 1..Len(a) |-> [t |-> atoi(a[i].t), n |-> a[i].n]]

\* the members of the JSON object written for the map m, one per key (the
\* HashMap's order is unspecified; the keys come in ascending order here)
RECURSIVE Members(_, _)
Members(m, keys) ==
    IF keys = {} THEN <<>>
    ELSE LET k == CHOOSE x \in keys : \A y \in keys : x <= y
         IN  <<[key |-> k, requests |-> Array(m[k])]>> \o Members(m, keys \ {k})

\* line 133: serde_json::to_string(&serializable_map)
to_string(m) == [closed |-> TRUE, members |-> Members(m, DOMAIN m)]

\* a text cut short: the object is never closed
Truncated == [closed |-> FALSE, members |-> <<>>]

\* the HashMap collected from the members of a JSON object
RECURSIVE Collect(_)
Collect(ms) ==
    IF ms = <<>> THEN NoMap
    ELSE LET rest == Collect(SubSeq(ms, 1, Len(ms) - 1))
             last == ms[Len(ms)]
         IN  [k \in DOMAIN rest \cup {last.key} |->
                 IF k = last.key THEN Requests(last.requests) ELSE rest[k]]

\* line 48: serde_json::from_str(&data).unwrap_or_default()
from_str(data) == IF data.closed THEN Collect(data.members) ELSE NoMap

(* The file at cache_path is kept as the map whose text it holds; the text
   is worked out when the file is read. *)

\* no file at cache_path: fs::try_exists is Ok(false)
Missing == [exists |-> FALSE, readable |-> FALSE, valid |-> FALSE, map |-> NoMap]

\* a file that fs::try_exists or fs::read_to_string fails on
Unreadable == [exists |-> TRUE, readable |-> FALSE, valid |-> FALSE, map |-> NoMap]

\* a file whose text does not parse
Corrupt == [exists |-> TRUE, readable |-> TRUE, valid |-> FALSE, map |-> NoMap]

\* lines 133-134: the file that holds serde_json::to_string of the map m
Json(m) == [exists |-> TRUE, readable |-> TRUE, valid |-> TRUE, map |-> m]

\* lines 45-46: the `?` of fs::try_exists and fs::read_to_string
ReadFails(file) == file.exists /\ ~file.readable

\* line 46: fs::read_to_string(&cache_path)
read_to_string(file) == IF file.valid THEN to_string(file.map) ELSE Truncated

\* lines 44-55: tenant_states of RateLimiter::new, once the file was read
\* or found missing
new(file) == IF file.exists THEN from_str(read_to_string(file)) ELSE NoMap

----------------------------------------------------------------------------
(* Scheduling: a task between two awaits occupies a worker thread *)

OnCpu(c) == pc[c] \in {"entry", "check", "push", "iter"}

FreeWorker == Cardinality({c \in Callers : OnCpu(c)}) < workers

\* a save_state loop suspended at item.value().lock().await keeps the
\* DashMap read guard of the item's shard (every tenant its own shard here)
MapRefHeld(t) == \E x \in Callers : pc[x] = "slock" /\ saveCur[x] = t

\* tasks that own a SemaphorePermit
HoldsSlot(c) == pc[c] \notin {"idle", "sem"}

ReleaseLocks(c) == [t \in Tenants |-> IF lockOwner[t] = c THEN NoCaller ELSE lockOwner[t]]

\* the locals of a call
locals == <<tenant, now0, wakeAt, saved, saveCur, slept, appended>>

\* the call of task c ends with r: its locals are gone
Return(c, r) ==
    /\ pc' = [pc EXCEPT ![c] = IF r = "permit" THEN "holding" ELSE "idle"]
    /\ result' = [result EXCEPT ![c] = r]
    /\ tenant' = [tenant EXCEPT ![c] = 0]
    /\ now0' = [now0 EXCEPT ![c] = 0]
    /\ wakeAt' = [wakeAt EXCEPT ![c] = 0]
    /\ saved' = [saved EXCEPT ![c] = NoMap]
    /\ saveCur' = [saveCur EXCEPT ![c] = 0]
    /\ slept' = [slept EXCEPT ![c] = 0]
    /\ appended' = [appended EXCEPT ![c] = FALSE]

(* An await whose resource is ready completes without suspending the task;
   otherwise the task is suspended and resumes, on a free worker, once the
   resource is ready. *)

----------------------------------------------------------------------------
(* acquire_permit *)

\* variant: a gate that does not count its permits
PermitReady_uncounted == sem_waiters = <<>>

\* line 72, first poll: a permit is free and nobody queues for one
PermitReady == available > 0 /\ sem_waiters = <<>>

\* variant: the tenant lock taken on the way in, before the gate
Call_lock_first(c, t) ==
    /\ pc[c] = "idle"
    /\ FreeWorker
    /\ tenant' = [tenant EXCEPT ![c] = t]
    /\ calls' = calls + 1
    /\ result' = [result EXCEPT ![c] = "none"]
    /\ lockOwner' = IF lockOwner[t] = NoCaller
                    THEN [lockOwner EXCEPT ![t] = c] ELSE lockOwner
    /\ IF PermitReady
       THEN /\ available' = available - 1
            /\ pc' = [pc EXCEPT ![c] = "entry"]
            /\ UNCHANGED sem_waiters
       ELSE /\ sem_waiters' = Append(sem_waiters, c)
            /\ pc' = [pc EXCEPT ![c] = "sem"]
            /\ UNCHANGED available
    /\ UNCHANGED <<clock, phase, workers, limiter, tenant_states, file_write_lock,
                   cache_file, now0, wakeAt, saved, saveCur, slept, appended,
                   granted>>

\* a task calls acquire_permit(t); line 72: it takes a permit, or queues on
\* the semaphore
Call(c, t) ==
    /\ pc[c] = "idle"
    /\ FreeWorker
    /\ tenant' = [tenant EXCEPT ![c] = t]
    /\ calls' = calls + 1
    /\ result' = [result EXCEPT ![c] = "none"]
    /\ IF PermitReady
       THEN /\ available' = available - 1
            /\ pc' = [pc EXCEPT ![c] = "entry"]
            /\ UNCHANGED sem_waiters
       ELSE /\ sem_waiters' = Append(sem_waiters, c)
            /\ pc' = [pc EXCEPT ![c] = "sem"]
            /\ UNCHANGED available
    /\ UNCHANGED <<clock, phase, workers, limiter, tenant_states, lockOwner, file_write_lock,
                   cache_file, now0, wakeAt, saved, saveCur, slept, appended,
                   granted>>

\* line 72: a queued task is given a permit; tokio's semaphore hands its
\* permits out in the order they were asked for
Acquire(c) ==
    /\ pc[c] = "sem"
    /\ sem_waiters # <<>> /\ Head(sem_waiters) = c
    /\ available > 0
    /\ FreeWorker
    /\ available' = available - 1
    /\ sem_waiters' = Tail(sem_waiters)
    /\ pc' = [pc EXCEPT ![c] = "entry"]
    /\ UNCHANGED <<clock, phase, workers, limiter, tenant_states, lockOwner, file_write_lock,
                   cache_file, calls, result, granted, locals>>

\* line 75: entry(tenant_id).or_default()
or_default(m, t) ==
    IF t \in DOMAIN m THEN m
    ELSE [u \in DOMAIN m \cup {t} |-> IF u = t THEN <<>> ELSE m[u]]

\* lines 77-80 once the tenant lock is taken: the first `now`, the retain
Locked(c, m) ==
    /\ lockOwner' = [lockOwner EXCEPT ![tenant[c]] = c]
    /\ now0' = [now0 EXCEPT ![c] = clock]
    /\ tenant_states' = [m EXCEPT ![tenant[c]] = retain(@, clock)]
    /\ pc' = [pc EXCEPT ![c] = "check"]

\* line 75: self.tenant_states.entry(tenant_id).or_default().clone(); the
\* entry call takes the shard's write lock and blocks the thread while a
\* reference into the shard is alive. Line 77, first poll: the tenant lock
\* is taken, or the task is suspended
Entry(c) ==
    /\ pc[c] = "entry"
    /\ ~MapRefHeld(tenant[c])
    /\ IF lockOwner[tenant[c]] = NoCaller
       THEN Locked(c, or_default(tenant_states, tenant[c]))
       ELSE /\ tenant_states' = or_default(tenant_states, tenant[c])
            /\ pc' = [pc EXCEPT ![c] = "lock"]
            /\ UNCHANGED <<lockOwner, now0>>
    /\ UNCHANGED <<clock, phase, workers, limiter, available, sem_waiters, file_write_lock,
                   cache_file, calls, result, granted, tenant, wakeAt, saved,
                   saveCur, slept, appended>>

\* variant: a suspended task takes the tenant lock whoever holds it
Lock_barging(c) ==
    /\ pc[c] = "lock"
    /\ FreeWorker
    /\ Locked(c, tenant_states)
    /\ UNCHANGED <<clock, phase, workers, limiter, available, sem_waiters, file_write_lock,
                   cache_file, calls, result, granted, tenant, wakeAt, saved,
                   saveCur, slept, appended>>

\* lines 77-80: a suspended task gets the tenant lock
Lock(c) ==
    /\ pc[c] = "lock"
    /\ lockOwner[tenant[c]] = NoCaller
    /\ FreeWorker
    /\ Locked(c, tenant_states)
    /\ UNCHANGED <<clock, phase, workers, limiter, available, sem_waiters, file_write_lock,
                   cache_file, calls, result, granted, tenant, wakeAt, saved,
                   saveCur, slept, appended>>

\* the daily test of line 90
DailyExhausted(q) == requests_in_last_day(q) >= DAILY_LIMIT - RATE_LIMIT_BUFFER

\* the minute test of lines 96-97
MinuteFull(q, now) ==
    /\ requests_in_last_minute(q, now) >= MINUTE_LIMIT - RATE_LIMIT_BUFFER
    /\ oldest_in_minute(q, now) # {}

\* variant: the minute test made before the daily test
Decision_minute_first(q, now) ==
    IF MinuteFull(q, now) THEN "sleep"
    ELSE IF DailyExhausted(q) THEN "daily_err"
    ELSE "break"

\* what one pass of the loop of lines 82-107 decides
Decision(q, now) ==
    IF DailyExhausted(q) THEN "daily_err"
    ELSE IF MinuteFull(q, now) THEN "sleep"
    ELSE "break"

\* the end of the sleep of line 102, started at `now`
SleepEnd(q, now) ==
    now + wait_seconds(CHOOSE o \in oldest_in_minute(q, now) : TRUE, now)

\* lines 82-107: one pass of the loop, with the tenant lock held
Check(c) ==
    /\ pc[c] = "check"
    /\ LET q   == tenant_states[tenant[c]]
           now == clock
           d   == Decision(q, now)
       IN  CASE d = "daily_err" ->
                  \* return Err: the MutexGuard and the permit are dropped
                  /\ lockOwner' = ReleaseLocks(c)
                  /\ available' = available + 1
                  /\ Return(c, "daily_err")
             [] d = "sleep" ->
                  /\ pc' = [pc EXCEPT ![c] = "sleep"]
                  /\ wakeAt' = [wakeAt EXCEPT ![c] = SleepEnd(q, now)]
                  /\ slept' = [slept EXCEPT ![c] = @ + 1]
                  /\ UNCHANGED <<lockOwner, available, result, tenant, now0,
                                 saved, saveCur, appended>>
             [] OTHER ->
                  /\ pc' = [pc EXCEPT ![c] = "push"]
                  /\ UNCHANGED <<lockOwner, available, result, locals>>
    /\ UNCHANGED <<clock, phase, workers, limiter, sem_waiters, tenant_states, file_write_lock,
                   cache_file, calls, granted>>

\* lines 102-103: the sleep is over (time has passed up to its end at
\* least) and the loop starts its next pass
Wake(c) ==
    /\ pc[c] = "sleep"
    /\ FreeWorker
    /\ clock' = Max(clock, wakeAt[c])
    /\ pc' = [pc EXCEPT ![c] = "check"]
    /\ UNCHANGED <<phase, workers, limiter, available, sem_waiters, tenant_states, lockOwner,
                   file_write_lock, cache_file, calls, result, granted,
                   locals>>

\* the timestamp line 110 pushes: `now` of line 78 (the loop's `now` of
\* line 83 is out of scope after the loop)
PushedStamp(c) == now0[c]

\* lines 110-114: state.requests.push_back(now); drop(state). Line 125,
\* first poll: the file lock is taken (line 128: the empty map), or the task
\* is suspended
Push(c) ==
    /\ pc[c] = "push"
    /\ tenant_states' = [tenant_states EXCEPT ![tenant[c]] = push_back(@, PushedStamp(c))]
    /\ granted' = [granted EXCEPT ![tenant[c]] = push_back(@, Instant)]
    /\ appended' = [appended EXCEPT ![c] = TRUE]
    /\ lockOwner' = ReleaseLocks(c)
    /\ IF file_write_lock = NoCaller
       THEN /\ file_write_lock' = c
            /\ pc' = [pc EXCEPT ![c] = "iter"]
       ELSE /\ pc' = [pc EXCEPT ![c] = "flock"]
            /\ UNCHANGED file_write_lock
    /\ UNCHANGED <<clock, phase, workers, limiter, available, sem_waiters, cache_file, calls,
                   result, tenant, now0, wakeAt, saved, saveCur, slept>>

----------------------------------------------------------------------------
(* save_state *)

\* variant: a save_state that does not wait for file_write_lock
FileLock_barging(c) ==
    /\ pc[c] = "flock"
    /\ FreeWorker
    /\ file_write_lock' = c
    /\ pc' = [pc EXCEPT ![c] = "iter"]
    /\ UNCHANGED <<clock, phase, workers, limiter, available, sem_waiters, tenant_states,
                   lockOwner, cache_file, calls, result, granted, locals>>

\* line 125: a suspended task gets the file lock; line 128: the empty map
FileLock(c) ==
    /\ pc[c] = "flock"
    /\ file_write_lock = NoCaller
    /\ FreeWorker
    /\ file_write_lock' = c
    /\ pc' = [pc EXCEPT ![c] = "iter"]
    /\ UNCHANGED <<clock, phase, workers, limiter, available, sem_waiters, tenant_states,
                   lockOwner, cache_file, calls, result, granted, locals>>

\* tenants the loop of line 129 has not visited yet
Unvisited(c) == DOMAIN tenant_states \ DOMAIN saved[c]

\* the item the iterator yields next (the model visits tenants in
\* ascending order)
NextItem(c) == CHOOSE t \in Unvisited(c) : \A u \in Unvisited(c) : t <= u

\* variant: a snapshot that takes the key and leaves the requests out
insert_default(m, t, q) == [u \in DOMAIN m \cup {t} |-> IF u = t THEN <<>> ELSE m[u]]

\* line 131: serializable_map.insert(*item.key(), state.clone())
insert(m, t, q) == [u \in DOMAIN m \cup {t} |-> IF u = t THEN q ELSE m[u]]

\* line 129: the iterator of self.tenant_states.iter() moves on. Exhausted:
\* line 133 serializes the map and line 134 starts the write. Otherwise
\* line 130, first poll: the item's lock is taken and lines 131-132 run, or
\* the task is suspended holding the item
Iter(c) ==
    /\ pc[c] = "iter"
    /\ IF Unvisited(c) = {}
       THEN /\ pc' = [pc EXCEPT ![c] = "write"]
            /\ UNCHANGED <<saved, saveCur>>
       ELSE IF lockOwner[NextItem(c)] = NoCaller
       THEN /\ saved' = [saved EXCEPT ![c] =
                            insert(@, NextItem(c), tenant_states[NextItem(c)])]
            /\ UNCHANGED <<pc, saveCur>>
       ELSE /\ pc' = [pc EXCEPT ![c] = "slock"]
            /\ saveCur' = [saveCur EXCEPT ![c] = NextItem(c)]
            /\ UNCHANGED saved
    /\ UNCHANGED <<clock, phase, workers, limiter, available, sem_waiters, tenant_states,
                   lockOwner, file_write_lock, cache_file, calls, result,
                   granted, tenant, now0, wakeAt, slept, appended>>

\* lines 130-132: a suspended save_state gets the item's lock and clones the
\* state into the map; the guard and the item are dropped at the end of the
\* loop body
SaveLock(c) ==
    /\ pc[c] = "slock"
    /\ lockOwner[saveCur[c]] = NoCaller
    /\ FreeWorker
    /\ saved' = [saved EXCEPT ![c] = insert(@, saveCur[c], tenant_states[saveCur[c]])]
    /\ saveCur' = [saveCur EXCEPT ![c] = 0]
    /\ pc' = [pc EXCEPT ![c] = "iter"]
    /\ UNCHANGED <<clock, phase, workers, limiter, available, sem_waiters, tenant_states,
                   lockOwner, file_write_lock, cache_file, calls, result,
                   granted, tenant, now0, wakeAt, slept, appended>>

\* variant: the save returns without writing the file
WriteOk_skipping(c) ==
    /\ pc[c] = "write"
    /\ FreeWorker
    /\ file_write_lock' = NoCaller
    /\ Return(c, "permit")
    /\ UNCHANGED <<clock, phase, workers, limiter, available, sem_waiters, tenant_states,
                   lockOwner, calls, granted, cache_file>>

\* lines 134-136, 117-119: fs::write succeeds, save_state returns Ok and
\* acquire_permit returns Ok(permit)
WriteOk(c) ==
    /\ pc[c] = "write"
    /\ FreeWorker
    /\ cache_file' = Json(saved[c])
    /\ file_write_lock' = NoCaller
    /\ Return(c, "permit")
    /\ UNCHANGED <<clock, phase, workers, limiter, available, sem_waiters, tenant_states,
                   lockOwner, calls, granted>>

\* what a failed fs::write leaves at cache_path: the old file, or a file cut
\* short that no longer parses
FailedWrite(old) == {old, Corrupt}

\* variant: a failed write that keeps the permit (as mem::forget would)
WriteFail_leaking(c) ==
    /\ pc[c] = "write"
    /\ FreeWorker
    /\ cache_file' \in FailedWrite(cache_file)
    /\ file_write_lock' = NoCaller
    /\ Return(c, "io_err")
    /\ UNCHANGED <<clock, phase, workers, limiter, available, sem_waiters, tenant_states,
                   lockOwner, calls, granted>>

\* variant: a failed write that takes the call's timestamp back
WriteFail_undoing(c) ==
    /\ pc[c] = "write"
    /\ FreeWorker
    /\ cache_file' \in FailedWrite(cache_file)
    /\ file_write_lock' = NoCaller
    /\ available' = available + 1
    /\ tenant_states' =
          [tenant_states EXCEPT ![tenant[c]] =
              SelectSeq([i \in 1..Len(@) |->
                            IF @[i].t = now0[c] THEN Run(@[i].t, @[i].n - 1)
                            ELSE @[i]],
                        LAMBDA r : r.n > 0)]
    /\ Return(c, "io_err")
    /\ UNCHANGED <<clock, phase, workers, limiter, sem_waiters, lockOwner, calls, granted>>

\* lines 134 and 117: fs::write fails, `?` returns the error from save_state
\* and from acquire_permit; the lock guard and the permit are dropped
WriteFail(c) ==
    /\ pc[c] = "write"
    /\ FreeWorker
    /\ cache_file' \in FailedWrite(cache_file)
    /\ file_write_lock' = NoCaller
    /\ available' = available + 1
    /\ Return(c, "io_err")
    /\ UNCHANGED <<clock, phase, workers, limiter, sem_waiters, tenant_states, lockOwner,
                   calls, granted>>

----------------------------------------------------------------------------
(* The caller's side *)

\* variant: dropping the permit also forgets the tenants' timestamps
Drop_forgetting(c) ==
    /\ pc[c] = "holding"
    /\ FreeWorker
    /\ available' = available + 1
    /\ pc' = [pc EXCEPT ![c] = "idle"]
    /\ result' = [result EXCEPT ![c] = "released"]
    /\ tenant_states' = [t \in DOMAIN tenant_states |-> <<>>]
    /\ UNCHANGED <<clock, phase, workers, limiter, sem_waiters, lockOwner,
                   file_write_lock, cache_file, calls, granted, locals>>

\* the caller drops the SemaphorePermit it was given
Drop(c) ==
    /\ pc[c] = "holding"
    /\ FreeWorker
    /\ available' = available + 1
    /\ pc' = [pc EXCEPT ![c] = "idle"]
    /\ result' = [result EXCEPT ![c] = "released"]
    /\ UNCHANGED <<clock, phase, workers, limiter, sem_waiters, tenant_states, lockOwner,
                   file_write_lock, cache_file, calls, granted, locals>>

\* send_request and its variants, from `let _permit = ...acquire_permit(
\* tenant_id).await?` on: builder.send() puts the request on the wire and the
\* task waits for the response
Send(c) ==
    /\ pc[c] = "holding"
    /\ FreeWorker
    /\ pc' = [pc EXCEPT ![c] = "sent"]
    /\ UNCHANGED <<clock, phase, workers, limiter, available, sem_waiters, tenant_states,
                   lockOwner, file_write_lock, cache_file, calls, result, granted,
                   locals>>

\* what a wrapper returns once acquire_permit has succeeded
Outcomes == {"ok", "transport_err", "parse_err", "api_err"}

\* the wrapper returns r: _permit goes out of scope and is dropped
Finish(c, r) ==
    /\ available' = available + 1
    /\ pc' = [pc EXCEPT ![c] = "idle"]
    /\ result' = [result EXCEPT ![c] = r]

\* variant: a wrapper whose error return keeps the permit
Status_leaking(c) ==
    /\ pc[c] = "sent"
    /\ FreeWorker
    /\ \/ pc' = [pc EXCEPT ![c] = "text"] /\ UNCHANGED <<available, result>>
       \/ /\ pc' = [pc EXCEPT ![c] = "idle"]
          /\ result' = [result EXCEPT ![c] = "transport_err"]
          /\ UNCHANGED available
    /\ UNCHANGED <<clock, phase, workers, limiter, sem_waiters, tenant_states, lockOwner,
                   file_write_lock, cache_file, calls, granted, locals>>

\* `builder.send().await?`: the response's head arrives, or the request
\* fails and `?` returns the error
Status(c) ==
    /\ pc[c] = "sent"
    /\ FreeWorker
    /\ \/ pc' = [pc EXCEPT ![c] = "text"] /\ UNCHANGED <<available, result>>
       \/ Finish(c, "transport_err")
    /\ UNCHANGED <<clock, phase, workers, limiter, sem_waiters, tenant_states, lockOwner,
                   file_write_lock, cache_file, calls, granted, locals>>

\* the rest of the wrapper: the status test, `response.text().await?`, the
\* parse of the body or XeroError::Api
Text(c) ==
    /\ pc[c] = "text"
    /\ FreeWorker
    /\ \E r \in Outcomes : Finish(c, r)
    /\ UNCHANGED <<clock, phase, workers, limiter, sem_waiters, tenant_states, lockOwner,
                   file_write_lock, cache_file, calls, granted, locals>>

\* the awaits of acquire_permit and save_state
Awaits == {"sem", "lock", "sleep", "flock", "slock", "write"}

\* how a call abandoned at the await p ends
Cancelled(p) ==
    CASE p = "sem"   -> "cancelled_sem"
      [] p = "lock"  -> "cancelled_lock"
      [] p = "sleep" -> "cancelled_sleep"
      [] OTHER       -> "cancelled_save"

\* variant: an abandoned call whose tenant MutexGuard is never dropped
Cancel_keeping_guard(c) ==
    /\ pc[c] \in Awaits
    /\ FreeWorker
    /\ available' = IF HoldsSlot(c) THEN available + 1 ELSE available
    /\ sem_waiters' = SelectSeq(sem_waiters, LAMBDA w : w # c)
    /\ file_write_lock' = IF file_write_lock = c THEN NoCaller ELSE file_write_lock
    /\ cache_file' \in IF pc[c] = "write"
                       THEN {cache_file, Json(saved[c])} ELSE {cache_file}
    /\ Return(c, Cancelled(pc[c]))
    /\ UNCHANGED <<clock, phase, workers, limiter, tenant_states, lockOwner, calls, granted>>

\* the caller drops the acquire_permit future at one of its awaits: every
\* local alive there is dropped (the permit, the tenant MutexGuard, the
\* file_write_lock guard, the DashMap item) and the task leaves the
\* semaphore's queue
Cancel(c) ==
    /\ pc[c] \in Awaits
    /\ FreeWorker
    /\ available' = IF HoldsSlot(c) THEN available + 1 ELSE available
    /\ sem_waiters' = SelectSeq(sem_waiters, LAMBDA w : w # c)
    /\ lockOwner' = ReleaseLocks(c)
    /\ file_write_lock' = IF file_write_lock = c THEN NoCaller ELSE file_write_lock
    \* a write already handed to the blocking pool may still reach the file
    /\ cache_file' \in IF pc[c] = "write"
                       THEN {cache_file, Json(saved[c])} ELSE {cache_file}
    /\ Return(c, Cancelled(pc[c]))
    /\ UNCHANGED <<clock, phase, workers, limiter, tenant_states, calls, granted>>

\* a second passes
Tick ==
    /\ clock < T0 + MaxTick
    /\ clock' = clock + 1
    /\ UNCHANGED <<phase, workers, limiter, available, sem_waiters, tenant_states, lockOwner,
                   file_write_lock, cache_file, pc, calls, result, granted,
                   locals>>

\* half a second passes before the first call of acquire_permit: where in
\* its second the wall clock stands when the calls begin
HalfTick ==
    /\ calls = 0
    /\ Instant < 2 * T0 + MaxPhase
    /\ phase' = (phase + 1) % 2
    /\ clock' = clock + (phase + 1) \div 2
    /\ UNCHANGED <<workers, limiter, available, sem_waiters, tenant_states, lockOwner,
                   file_write_lock, cache_file, pc, calls, result, granted,
                   locals>>

\* the callers rest for half a second less than MINUTE_SECONDS while no call
\* is in progress
Rest ==
    /\ clock <= T0 + MaxPhase
    /\ \A c \in Callers : pc[c] = "idle"
    /\ phase' = (phase + 1) % 2
    /\ clock' = clock + MINUTE_SECONDS - 1 + (phase + 1) \div 2
    /\ UNCHANGED <<workers, limiter, available, sem_waiters, tenant_states, lockOwner,
                   file_write_lock, cache_file, pc, calls, result, granted,
                   locals>>

\* the process ends while no call is in progress and a new process runs
\* RateLimiter::new on the file the old one left: every task and every
\* Permit of the old process is gone
Restart ==
    /\ \A c \in Callers : pc[c] \in {"idle", "holding"}
    /\ limiter' = IF ReadFails(cache_file) THEN "failed" ELSE "reloaded"
    /\ tenant_states' = IF ReadFails(cache_file) THEN NoMap ELSE new(cache_file)
    /\ available' = CONCURRENT_LIMIT
    /\ pc' = [c \in Callers |-> "idle"]
    /\ result' = [c \in Callers |-> "none"]
    /\ UNCHANGED <<clock, phase, workers, sem_waiters, lockOwner, file_write_lock,
                   cache_file, calls, granted, locals>>

----------------------------------------------------------------------------
(* Construction *)

\* variant: a semaphore built with one permit more
Constructed_spare(file, w) ==
    /\ clock = T0
    /\ phase = 0
    /\ workers = w
    /\ limiter = IF ReadFails(file) THEN "failed" ELSE "constructed"
    /\ available = CONCURRENT_LIMIT + 1
    /\ sem_waiters = <<>>
    /\ cache_file = file
    /\ tenant_states = IF ReadFails(file) THEN NoMap ELSE new(file)
    /\ lockOwner = [t \in Tenants |-> NoCaller]
    /\ file_write_lock = NoCaller
    /\ pc = [c \in Callers |-> "idle"]
    /\ tenant = [c \in Callers |-> 0]
    /\ now0 = [c \in Callers |-> 0]
    /\ wakeAt = [c \in Callers |-> 0]
    /\ saved = [c \in Callers |-> NoMap]
    /\ saveCur = [c \in Callers |-> 0]
    /\ calls = 0
    /\ result = [c \in Callers |-> "none"]
    /\ slept = [c \in Callers |-> 0]
    /\ appended = [c \in Callers |-> FALSE]
    /\ granted = [t \in Tenants |-> <<>>]

\* RateLimiter::new over the cache file `file`, on a runtime of w workers
Constructed(file, w) ==
    /\ clock = T0
    /\ phase = 0
    /\ workers = w
    /\ limiter = IF ReadFails(file) THEN "failed" ELSE "constructed"
    /\ available = CONCURRENT_LIMIT
    /\ sem_waiters = <<>>
    /\ cache_file = file
    /\ tenant_states = IF ReadFails(file) THEN NoMap ELSE new(file)
    /\ lockOwner = [t \in Tenants |-> NoCaller]
    /\ file_write_lock = NoCaller
    /\ pc = [c \in Callers |-> "idle"]
    /\ tenant = [c \in Callers |-> 0]
    /\ now0 = [c \in Callers |-> 0]
    /\ wakeAt = [c \in Callers |-> 0]
    /\ saved = [c \in Callers |-> NoMap]
    /\ saveCur = [c \in Callers |-> 0]
    /\ calls = 0
    /\ result = [c \in Callers |-> "none"]
    /\ slept = [c \in Callers |-> 0]
    /\ appended = [c \in Callers |-> FALSE]
    /\ granted = [t \in Tenants |-> <<>>]

\* request histories a cache file may hold when the limiter starts at T0
Quiet == <<>>

AlmostMinute == <<Run(T0, MINUTE_LIMIT - RATE_LIMIT_BUFFER - 1)>>

FullMinute == <<Run(T0 - 1, MINUTE_LIMIT - RATE_LIMIT_BUFFER)>>

AlmostDaily == <<Run(T0 - 3600, DAILY_LIMIT - RATE_LIMIT_BUFFER - 1)>>

FullDaily == <<Run(T0 - 3600, DAILY_LIMIT - RATE_LIMIT_BUFFER)>>

FullBoth ==
    <<Run(T0 - 3600, DAILY_LIMIT - MINUTE_LIMIT), Run(T0 - 1, MINUTE_LIMIT - RATE_LIMIT_BUFFER)>>

Expired == <<Run(T0 - DAY_SECONDS, 3)>>

AgingDaily ==
    <<Run(T0 - DAY_SECONDS + 1, 1), Run(T0 - 3600, DAILY_LIMIT - RATE_LIMIT_BUFFER - 1)>>

Histories ==
    {Quiet, AlmostMinute, FullMinute, AlmostDaily, FullDaily, FullBoth, Expired,
     AgingDaily}

OneTenant(h) == [t \in {1} |-> h]

TwoTenants(h1, h2) == [t \in {1, 2} |-> IF t = 1 THEN h1 ELSE h2]

\* cache files of the general scenario
MainFiles ==
    {Missing, Corrupt} \cup {Json(OneTenant(h)) : h \in Histories}
        \cup {Json(TwoTenants(FullMinute, AlmostMinute))}

----------------------------------------------------------------------------
(* The general scenario: the tasks MainCallers call acquire_permit for the
   tenants MainTenants, MaxCalls times in all, on a runtime with a worker for every
   task *)

Init == \E file \in MainFiles : Constructed(file, Cardinality(MainCallers))

Step(c) ==
    \/ \E t \in MainTenants : calls < MaxCalls /\ Call(c, t)
    \/ Entry(c)
    \/ Lock(c)
    \/ Check(c)
    \/ Wake(c)
    \/ Push(c)
    \/ FileLock(c)
    \/ Iter(c)
    \/ SaveLock(c)
    \/ WriteOk(c)
    \/ WriteFail(c)
    \/ Drop(c)

Next == (\E c \in MainCallers : Step(c)) \/ Tick

Spec == Init /\ [][Next]_vars

----------------------------------------------------------------------------
(* The gate scenario: CONCURRENT_LIMIT + 1 tasks, each calling acquire_permit
   once for a tenant of its own, on a current-thread runtime (the runtime
   #[tokio::test] gives the repository's tests) or on two worker threads, all
   tenants without history,
   the storage working and the clock standing still; the tasks are numbered
   in the order of their calls *)

GateWorkers == {1, 2}

InitGate == \E w \in GateWorkers : Constructed(Missing, w)

StepGate(c) ==
    \/ calls = c - 1 /\ Call(c, c)
    \/ Acquire(c)
    \/ Entry(c)
    \/ Check(c)
    \/ Push(c)
    \/ FileLock(c)
    \/ Iter(c)
    \/ SaveLock(c)
    \/ WriteOk(c)
    \/ Drop(c)

NextGate == \E c \in Callers : StepGate(c)

SpecGate == InitGate /\ [][NextGate]_vars

\* every task that can take a step eventually takes one, and a Permit that
\* was returned is eventually dropped
FairSpecGate == SpecGate /\ \A c \in Callers : WF_vars(StepGate(c))

----------------------------------------------------------------------------
(* The tasks and the tenants of the single-tenant scenarios *)

BurstCallers == {1}

BurstTenants == {1}

----------------------------------------------------------------------------
(* The cancellation scenario: CONCURRENT_LIMIT + 1 tasks on a runtime of one
   worker thread, numbered in the order of their calls, each calling
   acquire_permit once for the same tenant and free to drop the future at
   any await; the tenant's minute window is full when the limiter starts;
   the storage works *)

InitCancel == Constructed(Json(OneTenant(FullMinute)), 1)

StepCancel(c) ==
    \/ \E t \in BurstTenants : calls = c - 1 /\ Call(c, t)
    \/ Acquire(c)
    \/ Entry(c)
    \/ Lock(c)
    \/ Check(c)
    \/ Wake(c)
    \/ Push(c)
    \/ FileLock(c)
    \/ Iter(c)
    \/ WriteOk(c)
    \/ Drop(c)
    \/ Cancel(c)

NextCancel == \E c \in Callers : StepCancel(c)

SpecCancel == InitCancel /\ [][NextCancel]_vars

----------------------------------------------------------------------------
(* The burst scenario: one task calls acquire_permit for one tenant without
   history again and again, up to MaxBurst times, dropping each Permit before
   the next call; the storage works *)

InitBurst == Constructed(Missing, 1)

StepBurst(c) ==
    \/ \E t \in BurstTenants : calls < MaxBurst /\ Call(c, t)
    \/ Entry(c)
    \/ Check(c)
    \/ Wake(c)
    \/ Push(c)
    \/ Iter(c)
    \/ WriteOk(c)
    \/ Drop(c)

NextBurst == (\E c \in BurstCallers : StepBurst(c)) \/ Tick

SpecBurst == InitBurst /\ [][NextBurst]_vars

----------------------------------------------------------------------------
(* The runtime scenario: three tasks on a runtime of 1..MaxWorkers worker
   threads, each calling acquire_permit once, the first tenant's minute
   window full when the limiter starts; the storage works *)

RuntimeCallers == {1, 2, 3}

InitRuntime ==
    \E w \in 1..MaxWorkers : Constructed(Json(OneTenant(FullMinute)), w)

StepRuntime(c) ==
    \/ \E t \in MainTenants : calls < Cardinality(RuntimeCallers) /\ Call(c, t)
    \/ Entry(c)
    \/ Lock(c)
    \/ Check(c)
    \/ Wake(c)
    \/ Push(c)
    \/ FileLock(c)
    \/ Iter(c)
    \/ SaveLock(c)
    \/ WriteOk(c)
    \/ Drop(c)

NextRuntime == (\E c \in RuntimeCallers : StepRuntime(c)) \/ Tick

SpecRuntime == InitRuntime /\ [][NextRuntime]_vars

----------------------------------------------------------------------------
(* The restart scenario: the general scenario with a storage that may also
   refuse to be read, a clock that stands still but for the sleeps, and a
   process that may be restarted between calls *)

RestartFiles ==
    {Missing, Unreadable, Corrupt, Json(OneTenant(AlmostMinute)),
     Json(TwoTenants(FullMinute, AlmostMinute))}

InitRestart == \E file \in RestartFiles : Constructed(file, Cardinality(MainCallers))

StepRestart(c) ==
    \/ \E t \in MainTenants :
          limiter # "failed" /\ calls < MaxCalls /\ Call(c, t)
    \/ Entry(c)
    \/ Lock(c)
    \/ Check(c)
    \/ Wake(c)
    \/ Push(c)
    \/ FileLock(c)
    \/ Iter(c)
    \/ SaveLock(c)
    \/ WriteOk(c)
    \/ WriteFail(c)
    \/ Drop(c)

NextRestart == (\E c \in MainCallers : StepRestart(c)) \/ Restart

SpecRestart == InitRestart /\ [][NextRestart]_vars

----------------------------------------------------------------------------
(* The reload scenario: the limiter starts on a file that holds, for one
   tenant, timestamps 30 s, 20 s and 10 s old: the three of them alone, or
   with as many more of the oldest as leave room for two admissions in the
   minute window; the tasks MainCallers call acquire_permit for that tenant,
   MaxReload times in all *)

Spread(k) == <<Run(T0 - 30, k), Run(T0 - 20, 1), Run(T0 - 10, 1)>>

\* timestamps that leave room for two admissions
RoomForTwo == MINUTE_LIMIT - RATE_LIMIT_BUFFER - 2

ReloadFiles == {Json(OneTenant(Spread(1))), Json(OneTenant(Spread(RoomForTwo - 2)))}

InitReload == \E file \in ReloadFiles : Constructed(file, Cardinality(MainCallers))

StepReload(c) ==
    \/ \E t \in BurstTenants : calls < MaxReload /\ Call(c, t)
    \/ Entry(c)
    \/ Lock(c)
    \/ Check(c)
    \/ Wake(c)
    \/ Push(c)
    \/ FileLock(c)
    \/ Iter(c)
    \/ WriteOk(c)
    \/ Drop(c)

NextReload == (\E c \in MainCallers : StepReload(c)) \/ Tick

SpecReload == InitReload /\ [][NextReload]_vars

----------------------------------------------------------------------------
(* Claims on the concurrency gate *)

SlotsInUse == Cardinality({c \in Callers : HoldsSlot(c)})

\* C1: in every reachable state the number of concurrency slots in use
\* (tasks past the gate inside acquire_permit, and Permits returned and not
\* yet dropped) is at most CONCURRENT_LIMIT.
C1_SlotsBounded == SlotsInUse <= CONCURRENT_LIMIT

\* the gate is full and a task queues for a slot
C1_Witness ==
    /\ SlotsInUse = CONCURRENT_LIMIT
    /\ \E c \in Callers : pc[c] = "sem"

Obtained == {c \in Callers : result[c] \in {"permit", "released"}}

NoneReleased == \A c \in Callers : result[c] # "released"

\* a step of acquire_permit, none of them a drop of a Permit
StepWithoutDrop ==
    \E c \in Callers :
        \/ calls = c - 1 /\ Call(c, c)
        \/ Acquire(c) \/ Entry(c) \/ Lock(c) \/ Check(c) \/ Push(c)
        \/ FileLock(c) \/ Iter(c) \/ SaveLock(c) \/ WriteOk(c)

----------------------------------------------------------------------------
(* Claims on the window checks *)

\* entries of q inside the trailing 24 hours at clock value `now`
WithinDay(q, now) == SumN(SelectSeq(q, LAMBDA r : now - r.t < DAY_SECONDS))

\* the step of task c is a pass of the loop of lines 82-107
LoopPass(c) == pc[c] = "check" /\ pc'[c] # "check"

\* C3: a pass of the loop that finds DAILY_LIMIT - BUFFER or more timestamps
\* of the trailing 24 hours in the tenant's sequence returns the daily-quota
\* error and starts no sleep, whatever the minute window holds; and a call
\* that returns the daily-quota error has not slept at all.
C3_DailyErrorWithoutSleep ==
    [][\A c \in Callers :
          /\ LoopPass(c)
               /\ WithinDay(tenant_states[tenant[c]], clock)
                     >= DAILY_LIMIT - RATE_LIMIT_BUFFER
             => result'[c] = "daily_err" /\ pc'[c] = "idle"
          /\ LoopPass(c) /\ result'[c] = "daily_err" => slept[c] = 0]_vars

\* a call was refused for the day although the minute window was full as well
C3_Witness ==
    \E c \in Callers, t \in DOMAIN tenant_states :
        /\ result[c] = "daily_err"
        /\ WithinDay(tenant_states[t], clock) >= DAILY_LIMIT - RATE_LIMIT_BUFFER
        /\ MinuteFull(tenant_states[t], clock)

\* C5: a task suspended in the minute-window sleep holds no lock.
C5_NoLockAcrossSleep ==
    \A c \in Callers :
        pc[c] = "sleep" =>
            /\ \A t \in Tenants : lockOwner[t] # c
            /\ file_write_lock # c

\* C6: a task admitted for one tenant never waits for a task of another
\* tenant that sleeps for its minute window.
C6_CrossTenantIndependence ==
    \A b \in Callers :
        pc[b] = "slock" /\ saveCur[b] # tenant[b] =>
            ~ \E a \in Callers :
                /\ lockOwner[saveCur[b]] = a
                /\ pc[a] = "sleep"

\* C7: the free permits of the gate are CONCURRENT_LIMIT less the slots of
\* the calls in progress and of the Permits not yet dropped: a call that
\* returned an error (daily quota, persistence failure) holds none.
C7_ErrorReturnsSlot ==
    /\ available = CONCURRENT_LIMIT - SlotsInUse
    /\ \A c \in Callers : result[c] \in {"daily_err", "io_err"} => ~HoldsSlot(c)

\* one call failed on the daily quota, another on the write, and the gate
\* is whole again
C7_Witness ==
    /\ \E c \in Callers : result[c] = "daily_err"
    /\ \E c \in Callers : result[c] = "io_err"
    /\ available = CONCURRENT_LIMIT

\* entries of the grant record of tenant t inside the 60 s that end now
GrantedInLastMinute(t) ==
    SumN(SelectSeq(granted[t], LAMBDA r : r.t > Instant - 2 * MINUTE_SECONDS))

\* C2: for every tenant, the admissions recorded at clock values inside the
\* trailing 60 s never exceed MINUTE_LIMIT - BUFFER.
C2_MinuteQuotaKept ==
    \A t \in Tenants : GrantedInLastMinute(t) <= MINUTE_LIMIT - RATE_LIMIT_BUFFER

\* the smallest timestamp of q inside the 60 s window that ends at `now`
SmallestInMinute(q, now) ==
    LET S == {q[i].t : i \in {j \in 1..Len(q) : q[j].t > now - MINUTE_SECONDS}}
    IN  CHOOSE o \in S : \A u \in S : o <= u

\* C4: for a tenant that starts without history, no call sleeps before
\* MINUTE_LIMIT - BUFFER admissions were granted; a pass of the loop that
\* finds that many timestamps inside the 60 s window suspends the call for
\* max(1, oldest + 61 - now) seconds, oldest being the smallest timestamp
\* inside the window; and a call that slept is not granted before the end
\* of its sleep.
C4_BurstThenWait ==
    /\ [](\A c \in Callers : slept[c] > 0 =>
              len(granted[tenant[c]]) >= MINUTE_LIMIT - RATE_LIMIT_BUFFER)
    /\ [][\A c \in Callers :
             LoopPass(c)
               /\ requests_in_last_minute(tenant_states[tenant[c]], clock)
                     >= MINUTE_LIMIT - RATE_LIMIT_BUFFER
             => /\ pc'[c] = "sleep"
                /\ wakeAt'[c] = clock +
                      Max(1, SmallestInMinute(tenant_states[tenant[c]], clock)
                               + WAIT_MARGIN - clock)]_vars
    /\ [](\A c \in Callers : pc[c] = "push" /\ slept[c] > 0 => clock >= wakeAt[c])

\* MINUTE_LIMIT - BUFFER admissions of one instant were granted and the next
\* call sleeps until 61 s after them
C4_Witness ==
    \E c \in BurstCallers :
        /\ pc[c] = "sleep"
        /\ tenant_states[tenant[c]] = <<Run(T0, MINUTE_LIMIT - RATE_LIMIT_BUFFER)>>
        /\ granted[tenant[c]] = <<Run(2 * T0, MINUTE_LIMIT - RATE_LIMIT_BUFFER)>>
        /\ wakeAt[c] = T0 + WAIT_MARGIN

----------------------------------------------------------------------------
(* Claims on abandoned calls and on progress *)

\* C8: a call abandoned while it waits for a concurrency slot, for its
\* tenant's lock or in the minute-window sleep leaves the caller without a
\* slot and without a lock, and has appended no timestamp.
C8_CancelLeavesNothing ==
    [][\A c \in Callers :
          pc[c] \in {"sem", "lock", "sleep"} /\ pc'[c] = "idle" =>
              /\ ~appended[c]
              /\ tenant_states' = tenant_states
              /\ \A t \in Tenants : lockOwner'[t] # c
              /\ file_write_lock' # c
              /\ \A i \in 1..Len(sem_waiters') : sem_waiters'[i] # c
              /\ available' = CONCURRENT_LIMIT - SlotsInUse']_vars

\* one call was abandoned in its sleep, another while it waited for the
\* lock the sleeper held, a third while it queued for a slot; the gate and
\* the locks are free again
C8_Witness ==
    /\ \E c \in Callers : result[c] = "cancelled_sleep"
    /\ \E c \in Callers : result[c] = "cancelled_lock"
    /\ \E c \in Callers : result[c] = "cancelled_sem"
    /\ available = CONCURRENT_LIMIT
    /\ \A t \in Tenants : lockOwner[t] = NoCaller

\* a step of a call in progress, or the drop of a Permit
Progress ==
    \E c \in Callers :
        \/ Acquire(c) \/ Entry(c) \/ Lock(c) \/ Check(c) \/ Wake(c) \/ Push(c)
        \/ FileLock(c) \/ Iter(c) \/ SaveLock(c) \/ WriteOk(c) \/ Drop(c)

\* C10: the limiter is deadlock-free: whenever a call is unfinished, a call
\* in progress can take a step or a Permit can be dropped (a sleep ends by
\* itself as the clock advances).
C10_DeadlockFree ==
    (\E c \in Callers : pc[c] \notin {"idle", "holding"}) => ENABLED Progress

----------------------------------------------------------------------------
(* Claims on the lock order and on persistence *)

\* C11: the gate comes before the tenant lock: a task that owns a tenant
\* lock, or waits for one in acquire_permit or in save_state, has a slot of
\* the gate and is not in the gate's queue; a task that waits for a slot
\* owns no tenant lock; the gate's free permits are CONCURRENT_LIMIT less
\* the slots so held.
C11_GateBeforeTenantLock ==
    /\ available = CONCURRENT_LIMIT - SlotsInUse
    /\ \A c \in Callers :
        /\ (pc[c] \in {"lock", "slock"} \/ \E t \in Tenants : lockOwner[t] = c)
              => /\ HoldsSlot(c)
                 /\ \A i \in 1..Len(sem_waiters) : sem_waiters[i] # c
        /\ (pc[c] = "sem" \/ \E i \in 1..Len(sem_waiters) : sem_waiters[i] = c)
              => \A t \in Tenants : lockOwner[t] # c

\* a save_state waits for the lock of a tenant another task owns, while a
\* third task queues for a slot
C11_Witness ==
    \E c, d, e \in Callers :
        /\ pc[c] = "slock" /\ lockOwner[saveCur[c]] = d
        /\ pc[e] = "sem"

\* C12: a call whose persistence write failed ends with the caller holding
\* the Permit of the admission.
C12_PermitSurvivesWriteFailure ==
    \A c \in Callers : result[c] = "io_err" => pc[c] = "holding"

\* the sequence q holds the timestamp t
Holds(q, t) == \E i \in 1..Len(q) : q[i].t = t

\* C13: a write failure in save_state changes no tenant's sequence: the
\* timestamp the call appended is still in its tenant's sequence.
C13_FailedSaveKeepsTimestamp ==
    [][\A c \in Callers :
          pc[c] = "write" /\ result'[c] = "io_err" =>
              /\ appended[c]
              /\ tenant_states' = tenant_states
              /\ Holds(tenant_states'[tenant[c]], PushedStamp(c))]_vars

\* a call's save failed, and its timestamp, the only one granted since the
\* start, fills the minute window for the next call, which sleeps
C13_Witness ==
    \E c, d \in Callers :
        /\ result[c] = "io_err"
        /\ pc[d] = "sleep"
        /\ len(granted[tenant[d]]) = 1
        /\ len(tenant_states[tenant[d]]) = MINUTE_LIMIT - RATE_LIMIT_BUFFER

\* C14: when acquire_permit returns a Permit, the file at cache_path is the
\* text of a snapshot taken after the call's timestamp was appended: read
\* back, it holds that timestamp for the call's tenant.
C14_SavedBeforeReturn ==
    [][\A c \in Callers :
          pc[c] = "write" /\ result'[c] = "permit" =>
              /\ appended[c]
              /\ ~ReadFails(cache_file')
              /\ tenant[c] \in DOMAIN new(cache_file')
              /\ Holds(new(cache_file')[tenant[c]], PushedStamp(c))]_vars

\* a Permit was returned for a tenant that had no history, and the file
\* holds the tenant's sequence as it is in memory
C14_Witness ==
    \E c \in Callers, t \in DOMAIN tenant_states :
        /\ pc[c] = "holding"
        /\ t \in DOMAIN new(cache_file)
        /\ granted[t] # <<>>
        /\ new(cache_file)[t] = tenant_states[t]
        /\ len(tenant_states[t]) = len(granted[t])

\* tasks inside the critical section of save_state: building the snapshot
\* or writing it
Saving == {c \in Callers : pc[c] \in {"iter", "slock", "write"}}

\* C15: at most one task at a time builds or writes a snapshot, and it is
\* the owner of file_write_lock.
C15_OneWriterAtATime ==
    /\ Cardinality(Saving) <= 1
    /\ \A c \in Saving : file_write_lock = c

\* one task writes its snapshot while another waits for file_write_lock
C15_Witness ==
    \E c, d \in Callers : pc[c] = "write" /\ pc[d] = "flock"

----------------------------------------------------------------------------
(* Claims on construction and on reloaded history *)

\* C16: RateLimiter::new never fails because of the file at cache_path.
C16_ConstructionNeverFails == limiter # "failed"

Loaded(t) == len(tenant_states[t]) - len(granted[t])

C19_CountsArePruned ==
    \A c \in Callers :
        pc[c] = "check" =>
            requests_in_last_day(tenant_states[tenant[c]])
                = WithinDay(tenant_states[tenant[c]], clock)

\* the timestamps of q never decrease
NonDecreasing(q) == \A i, j \in 1..Len(q) : i < j => q[i].t <= q[j].t

\* C20: every tenant's sequence is non-decreasing in every reachable state.
C20_Monotone == \A t \in DOMAIN tenant_states : NonDecreasing(tenant_states[t])

\* a call appended its timestamp after a minute-window sleep, behind the
\* timestamps it had waited for
C20_Witness ==
    \E c \in Callers :
        /\ slept[c] > 0
        /\ appended[c]
        /\ Len(tenant_states[tenant[c]]) >= 2
        /\ clock > T0 + MaxTick

\* C21: the step that drops a permit returns exactly one slot to the gate and
\* changes no tenant's sequence and nothing in the cache file.
C21_DropChangesOnlyGate ==
    [][\A c \in Callers :
          (pc[c] = "holding" /\ pc'[c] # "holding") =>
              /\ available' = available + 1
              /\ tenant_states' = tenant_states
              /\ cache_file' = cache_file
              /\ lockOwner' = lockOwner
              /\ file_write_lock' = file_write_lock]_vars

\* a permit was dropped while the tenant's saved sequence was not empty
C21_Witness ==
    \E c \in Callers :
        /\ result[c] = "released"
        /\ cache_file.valid
        /\ \E t \in DOMAIN cache_file.map : len(cache_file.map[t]) > 0
        /\ \E t \in DOMAIN tenant_states : len(granted[t]) > 0

\* C22: a call that slept in the minute-window loop appends a timestamp that
\* is at least the clock value at which its last sleep ended.
C22_StampOfFinalCheck ==
    [][\A c \in Callers :
          (pc[c] = "push" /\ appended'[c] /\ slept[c] > 0) =>
              LET q == tenant_states'[tenant[c]]
              IN  q[Len(q)].t >= wakeAt[c]]_vars

\* the tasks that hold the lock of tenant t before or after a step
Holder(t) == {c \in Callers : tenant[c] = t /\ lockOwner[t] = c}

\* C25: a tenant's sequence is changed only by a step of a task that holds
\* the tenant's lock in that step (it takes it, holds it, or gives it up with
\* its append); from the check that admits a task to its append the task
\* owns the lock and the sequence does not change.
C25_MutatedUnderLock ==
    [][/\ \A t \in DOMAIN tenant_states :
              tenant_states'[t] # tenant_states[t] =>
                  \E c \in Callers :
                      /\ tenant[c] = t
                      /\ pc[c] \in {"entry", "lock", "push"}
                      /\ pc'[c] # pc[c]
                      /\ lockOwner[t] = c \/ lockOwner'[t] = c
                      /\ \A d \in Callers \ {c} : lockOwner[t] # d /\ lockOwner'[t] # d
       /\ \A c \in Callers :
              pc[c] = "push" =>
                  /\ lockOwner[tenant[c]] = c
                  /\ pc'[c] = "push" =>
                         /\ lockOwner'[tenant[c]] = c
                         /\ tenant_states'[tenant[c]] = tenant_states[tenant[c]]]_vars

\* a task was admitted and is about to append while another task of the same
\* tenant waits for the tenant's lock
C25_Witness ==
    \E c, d \in Callers :
        /\ c # d
        /\ pc[c] = "push"
        /\ pc[d] = "lock"
        /\ tenant[c] = tenant[d]
        /\ Holder(tenant[c]) = {c}

----------------------------------------------------------------------------
(* The wrapper scenario: the tasks MainCallers call send_request for the
   tenants MainTenants, MaxCalls times in all; the storage may fail *)

WrapperFiles ==
    {Missing, Json(OneTenant(FullMinute)), Json(OneTenant(FullDaily))}

InitWrapper == \E file \in WrapperFiles : Constructed(file, Cardinality(MainCallers))

StepWrapper(c) ==
    \/ \E t \in MainTenants : calls < MaxCalls /\ Call(c, t)
    \/ Entry(c)
    \/ Lock(c)
    \/ Check(c)
    \/ Wake(c)
    \/ Push(c)
    \/ FileLock(c)
    \/ Iter(c)
    \/ SaveLock(c)
    \/ WriteOk(c)
    \/ WriteFail(c)
    \/ Send(c)
    \/ Status(c)
    \/ Text(c)

NextWrapper == \E c \in MainCallers : StepWrapper(c)

SpecWrapper == InitWrapper /\ [][NextWrapper]_vars

\* the tasks whose request is on the wire or whose response is being read
InFlight == {c \in Callers : pc[c] \in {"sent", "text"}}

\* C26: a wrapper sends its request only in a call whose acquire_permit
\* returned a permit, a request in flight holds one of the gate's slots, the
\* slot comes back in the step in which the wrapper returns, whatever it
\* returns, and a call whose acquire_permit failed ends without a request.
C26_RequestUnderPermit ==
    [][\A c \in Callers :
          /\ (pc'[c] = "sent" /\ pc[c] # "sent") =>
                 pc[c] = "holding" /\ result[c] = "permit"
          /\ pc'[c] = "text" => pc[c] \in {"sent", "text"}
          /\ c \in InFlight =>
                 /\ HoldsSlot(c)
                 /\ available + Cardinality(InFlight) <= CONCURRENT_LIMIT
                 /\ pc'[c] \in {"sent", "text", "idle"}
                 /\ pc'[c] = "idle" =>
                        available' = available + 1 /\ result'[c] \in Outcomes
          /\ (result'[c] \in {"daily_err", "io_err"} /\ result'[c] # result[c]) =>
                 c \notin InFlight /\ pc'[c] = "idle" /\ available' = available + 1]_vars

\* one wrapper's request failed on the wire and its slot is back while
\* another wrapper's call ended with the daily-quota error
C26_Witness ==
    \E c, d \in Callers :
        /\ result[c] = "transport_err"
        /\ result[d] = "daily_err"
        /\ pc[c] = "idle"
        /\ available = CONCURRENT_LIMIT

----------------------------------------------------------------------------
(* The ageing scenario: the general scenario with working storage, started
   on a tenant whose minute window is full while one of its timestamps is
   about to leave the day, or on a tenant at its daily threshold whose
   sequence still holds a timestamp that has left the day *)

AgingFullMinute ==
    <<Run(T0 - DAY_SECONDS + 30, 1), Run(T0 - 1, MINUTE_LIMIT - RATE_LIMIT_BUFFER)>>

ExpiredFullDaily ==
    <<Run(T0 - DAY_SECONDS, 1), Run(T0 - 3600, DAILY_LIMIT - RATE_LIMIT_BUFFER)>>

AgingFiles == {Json(OneTenant(AgingFullMinute)), Json(OneTenant(ExpiredFullDaily))}

InitAging == \E file \in AgingFiles : Constructed(file, Cardinality(MainCallers))

StepAging(c) ==
    \/ \E t \in MainTenants : calls < MaxCalls /\ Call(c, t)
    \/ Entry(c)
    \/ Lock(c)
    \/ Check(c)
    \/ Wake(c)
    \/ Push(c)
    \/ FileLock(c)
    \/ Iter(c)
    \/ SaveLock(c)
    \/ WriteOk(c)
    \/ Drop(c)

NextAging == (\E c \in MainCallers : StepAging(c)) \/ Tick

SpecAging == InitAging /\ [][NextAging]_vars

\* C23: when a call evaluates its checks again after a minute-window sleep,
\* its tenant's sequence holds no timestamp older than 24 hours at that
\* clock value: the pruning was done again.
C23_PrunedAgainAfterWait ==
    \A c \in Callers :
        (pc[c] = "check" /\ slept[c] > 0) =>
            \A i \in 1..Len(tenant_states[tenant[c]]) :
                clock - tenant_states[tenant[c]][i].t < DAY_SECONDS

\* no call of acquire_permit is in progress
Quiescent == \A c \in Callers : pc[c] \in {"idle", "holding"}

\* what a new process would load from the cache file
Persisted == new(cache_file)

KeptOfDay(q, now) == SelectSeq(q, LAMBDA r : now - r.t < DAY_SECONDS)

\* C29: the step in which a call fails with the daily-quota error changes no
\* tenant's sequence and not the cache file, and the call has appended
\* nothing; before it, the call changed its tenant's sequence only when it
\* took the tenant lock, by dropping the timestamps older than 24 hours, and
\* no other tenant's sequence.
C29_DailyErrorFrame ==
    [][\A c \in Callers :
          /\ (result'[c] = "daily_err" /\ result[c] # "daily_err") =>
                 /\ tenant_states' = tenant_states
                 /\ cache_file' = cache_file
                 /\ granted' = granted
                 /\ ~appended[c]
                 /\ pc[c] = "check"
          /\ (pc[c] \in {"entry", "lock"} /\ pc'[c] = "check") =>
                 \A t \in DOMAIN tenant_states :
                     tenant_states'[t] =
                         IF t = tenant[c]
                         THEN KeptOfDay(tenant_states[t], clock)
                         ELSE tenant_states[t]
          /\ (pc[c] \in {"check", "sleep"} /\ pc'[c] \in {"check", "sleep"}) =>
                 tenant_states'[tenant[c]] = tenant_states[tenant[c]]]_vars

\* a call failed with the daily-quota error after dropping an expired
\* timestamp that the cache file still holds
C29_Witness ==
    \E c \in Callers :
        /\ result[c] = "daily_err"
        /\ Persisted = OneTenant(ExpiredFullDaily)
        /\ tenant_states[1] = FullDaily
        /\ \A t \in Tenants : granted[t] = <<>>

----------------------------------------------------------------------------
(* The crowd scenario: CONCURRENT_LIMIT tasks call acquire_permit for a
   tenant whose minute window is full and one more task calls it for a tenant
   without history, each once, in the order of their numbers, on two worker
   threads; the storage works *)

CrowdTenant(c) == IF c <= CONCURRENT_LIMIT THEN 1 ELSE 2

InitCrowd == Constructed(Json(OneTenant(FullMinute)), Cardinality(GateWorkers))

StepCrowd(c) ==
    \/ calls = c - 1 /\ Call(c, CrowdTenant(c))
    \/ Acquire(c)
    \/ Entry(c)
    \/ Lock(c)
    \/ Check(c)
    \/ Wake(c)
    \/ Push(c)
    \/ FileLock(c)
    \/ Iter(c)
    \/ SaveLock(c)
    \/ WriteOk(c)
    \/ Drop(c)

NextCrowd == \E c \in Callers : StepCrowd(c)

SpecCrowd == InitCrowd /\ [][NextCrowd]_vars

\* the tasks that were returned a permit and have not dropped it
Returned == {c \in Callers : pc[c] = "holding"}

\* the tasks that wait for a tenant lock or sleep for a minute window
WindowWaiters == {c \in Callers : pc[c] \in {"lock", "sleep"}}

\* C28: while fewer than CONCURRENT_LIMIT permits are returned and
\* unreleased, a task queued at the gate is not kept out by tasks of other
\* tenants that wait for a tenant lock or sleep for a minute window: some
\* slot is held by a task that is neither.
C28_WaitersLeaveGateOpen ==
    \A c \in Callers :
        (pc[c] = "sem" /\ Cardinality(Returned) < CONCURRENT_LIMIT) =>
            \E d \in Callers :
                /\ HoldsSlot(d)
                /\ \/ d \notin WindowWaiters
                   \/ tenant[d] = tenant[c]

----------------------------------------------------------------------------
(* The runtime scenario under fairness *)

\* every task that can take a step eventually takes one: suspended tasks are
\* resumed, sleeps end, and a Permit that was returned is eventually dropped
FairSpecRuntime == SpecRuntime /\ \A c \in RuntimeCallers : WF_vars(StepRuntime(c))

\* C24: every call of acquire_permit for a tenant below its daily threshold
\* (all tenants of the runtime scenario are) eventually returns a Permit.
C24_EveryCallReturnsPermit ==
    \A c \in RuntimeCallers :
        (pc[c] \notin {"idle", "holding"}) ~> (pc[c] = "holding")

----------------------------------------------------------------------------
(* The phase scenario: one task calls acquire_permit for one tenant without
   history up to MINUTE_LIMIT + 1 times, dropping each Permit before the next
   call; the calls begin anywhere in the first second and the task may rest
   once, for 59.5 s, between two calls; the storage works *)

InitPhase == Constructed(Missing, Cardinality(BurstCallers))

StepPhase(c) ==
    \/ \E t \in BurstTenants : calls <= MINUTE_LIMIT /\ Call(c, t)
    \/ Entry(c)
    \/ Check(c)
    \/ Wake(c)
    \/ Push(c)
    \/ Iter(c)
    \/ WriteOk(c)
    \/ Drop(c)

NextPhase == (\E c \in BurstCallers : StepPhase(c)) \/ HalfTick \/ Rest

SpecPhase == InitPhase /\ [][NextPhase]_vars

\* C30: for every tenant, the admissions granted at instants inside the 60 s
\* that end now never exceed MINUTE_LIMIT.
C30_UpstreamLimitKept ==
    \A t \in Tenants : GrantedInLastMinute(t) <= MINUTE_LIMIT

====
